---------------------------- MODULE Spec2Model ----------------------------
(***************************************************************************)
(* Model of random_profiles.py: generate_profile(), save_profiles(n,       *)
(* filename) and the __main__ block.                                       *)
(*                                                                         *)
(* Strings are TLA+ strings; the file is a string, json.dump is modelled   *)
(* chunk by chunk (one fp.write per chunk, as the standard encoder does    *)
(* with indent=2), and the contents are read back by a character-level     *)
(* JSON parser.  The process-wide random source is a state variable that   *)
(* is advanced by every draw.                                              *)
(***************************************************************************)
EXTENDS Integers, Sequences, FiniteSets, TLC

(***************************************************************************)
(* Bounds of the model.                                                    *)
(***************************************************************************)
\* save_profiles is called with n in -MaxN .. MaxN
MaxN == 2
\* the random source has RngMod states; it is seeded with any of them
RngMod == 7

(***************************************************************************)
(* Reference lists (random_profiles.py lines 4-25).                        *)
(***************************************************************************)
FIRST_NAMES ==
    << "Alice", "Bob", "Charlie", "Diana", "Edward",
       "Fiona", "George", "Hannah", "Ivan", "Julia",
       "Kevin", "Laura", "Michael", "Natalie", "Oscar",
       "Paula", "Quentin", "Rachel", "Steve", "Tina" >>

LAST_NAMES ==
    << "Smith", "Johnson", "Williams", "Brown", "Jones",
       "Garcia", "Miller", "Davis", "Martinez", "Wilson",
       "Anderson", "Taylor", "Thomas", "Jackson", "White",
       "Harris", "Martin", "Thompson", "Robinson", "Lewis" >>

CITIES ==
    << "New York", "Los Angeles", "Chicago", "Houston", "Phoenix",
       "Philadelphia", "San Antonio", "San Diego", "Dallas", "San Jose",
       "Austin", "Jacksonville", "Fort Worth", "Columbus", "Charlotte",
       "Indianapolis", "San Francisco", "Seattle", "Denver", "Nashville" >>

DOMAINS ==
    << "gmail.com", "yahoo.com", "outlook.com", "hotmail.com", "example.com" >>

\* randint(1, 999) of the e-mail address, randint(18, 75) of the age
EMAIL_NUM_MIN == 1
EMAIL_NUM_MAX == 999
AGE_MIN == 18
AGE_MAX == 75

\* the __main__ block: save_profiles(10, "profiles.json")
MAIN_N == 10
MAIN_FILENAME == "profiles.json"
MAIN_MESSAGE == "10 profiles saved to profiles.json"

(***************************************************************************)
(* Strings.                                                                *)
(***************************************************************************)
Range(f) == { f[i] : i \in DOMAIN f }

CharAt(s, i) == SubSeq(s, i, i)

UPPER == "ABCDEFGHIJKLMNOPQRSTUVWXYZ"
LOWER == "abcdefghijklmnopqrstuvwxyz"
DIGITS == "0123456789"

\* position of the character c in the string alphabet, 0 when absent
IndexIn(c, alphabet) ==
    IF \E i \in 1..Len(alphabet) : CharAt(alphabet, i) = c
    THEN CHOOSE i \in 1..Len(alphabet) : CharAt(alphabet, i) = c
    ELSE 0

\* str.lower() on one character
LowerChar(c) ==
    IF IndexIn(c, UPPER) > 0 THEN CharAt(LOWER, IndexIn(c, UPPER)) ELSE c

\* str.lower()
RECURSIVE Lower(_)
Lower(s) ==
    IF s = "" THEN "" ELSE LowerChar(Head(s)) \o Lower(Tail(s))

\* the decimal form of a natural number
RECURSIVE NatStr(_)
NatStr(k) ==
    IF k < 10 THEN CharAt(DIGITS, k + 1)
    ELSE NatStr(k \div 10) \o CharAt(DIGITS, (k % 10) + 1)

\* str(k) / int.__repr__(k)
IntStr(k) == IF k < 0 THEN "-" \o NatStr(0 - k) ELSE NatStr(k)

(***************************************************************************)
(* The random source.  Its state is a number in 0 .. RngMod-1; a draw      *)
(* yields the current state and advances it.  randbelow spreads the value  *)
(* yielded over 0 .. k-1 so that both ends of every range are reached.     *)
(***************************************************************************)
RngStates == 0 .. (RngMod - 1)

random_next(s) == (s + 1) % RngMod

randbelow(raw, k) == (raw * (k - 1)) \div (RngMod - 1)

\* random.choice(seq) is seq[randbelow(len(seq))]
choice(seq, raw) == seq[randbelow(raw, Len(seq)) + 1]

\* random.randint(a, b) is a + randbelow(b - a + 1)
randint(a, b, raw) == a + randbelow(raw, b - a + 1)

\* the values yielded by cnt successive draws from state s
RECURSIVE Stream(_, _)
Stream(s, cnt) ==
    IF cnt <= 0 THEN << >> ELSE << s >> \o Stream(random_next(s), cnt - 1)

(***************************************************************************)
(* generate_profile (lines 28-41): six draws, in the order first name,     *)
(* last name, e-mail number, e-mail domain, age, city.  The operator       *)
(* returns the profile, the state of the random source afterwards and the  *)
(* values the draws yielded.                                               *)
(***************************************************************************)
PROFILE_KEYS == << "name", "email", "age", "city" >>

\* generate_profile with randint(18, 76) for the age
generate_profile_age76(s) ==
    LET d == Stream(s, 6)
        first == choice(FIRST_NAMES, d[1])
        last  == choice(LAST_NAMES, d[2])
        name  == first \o " " \o last
        email == Lower(first) \o "." \o Lower(last)
                    \o IntStr(randint(EMAIL_NUM_MIN, EMAIL_NUM_MAX, d[3]))
                    \o "@" \o choice(DOMAINS, d[4])
        age   == randint(AGE_MIN, AGE_MAX + 1, d[5])
        city  == choice(CITIES, d[6])
    IN  [ profile |-> [ name |-> name, email |-> email,
                        age |-> age, city |-> city ],
          rng     |-> random_next(d[6]),
          yielded |-> d ]

\* generate_profile with the first name of the e-mail drawn anew
generate_profile_redraw(s) ==
    LET d == Stream(s, 7)
        first == choice(FIRST_NAMES, d[1])
        last  == choice(LAST_NAMES, d[2])
        name  == first \o " " \o last
        email == Lower(choice(FIRST_NAMES, d[3])) \o "." \o Lower(last)
                    \o IntStr(randint(EMAIL_NUM_MIN, EMAIL_NUM_MAX, d[4]))
                    \o "@" \o choice(DOMAINS, d[5])
        age   == randint(AGE_MIN, AGE_MAX, d[6])
        city  == choice(CITIES, d[7])
    IN  [ profile |-> [ name |-> name, email |-> email,
                        age |-> age, city |-> city ],
          rng     |-> random_next(d[7]),
          yielded |-> d ]

\* generate_profile with the age and the city drawn before the e-mail
generate_profile_reordered(s) ==
    LET d == Stream(s, 6)
        first == choice(FIRST_NAMES, d[1])
        last  == choice(LAST_NAMES, d[2])
        name  == first \o " " \o last
        age   == randint(AGE_MIN, AGE_MAX, d[3])
        city  == choice(CITIES, d[4])
        email == Lower(first) \o "." \o Lower(last)
                    \o IntStr(randint(EMAIL_NUM_MIN, EMAIL_NUM_MAX, d[5]))
                    \o "@" \o choice(DOMAINS, d[6])
    IN  [ profile |-> [ name |-> name, email |-> email,
                        age |-> age, city |-> city ],
          rng     |-> random_next(d[6]),
          yielded |-> d ]

generate_profile(s) ==
    LET d == Stream(s, 6)
        first == choice(FIRST_NAMES, d[1])
        last  == choice(LAST_NAMES, d[2])
        name  == first \o " " \o last
        email == Lower(first) \o "." \o Lower(last)
                    \o IntStr(randint(EMAIL_NUM_MIN, EMAIL_NUM_MAX, d[3]))
                    \o "@" \o choice(DOMAINS, d[4])
        age   == randint(AGE_MIN, AGE_MAX, d[5])
        city  == choice(CITIES, d[6])
    IN  [ profile |-> [ name |-> name, email |-> email,
                        age |-> age, city |-> city ],
          rng     |-> random_next(d[6]),
          yielded |-> d ]

(***************************************************************************)
(* json.dump(profiles, f, indent=2, ensure_ascii=False) (line 48).  The    *)
(* encoder yields the text in chunks and json.dump passes each chunk to    *)
(* f.write in turn:                                                        *)
(*   []                      for the empty list                            *)
(*   [\n  , {, \n    , "name", : , "...", ,\n    , "email", ...            *)
(***************************************************************************)
INDENT == "  "
ITEM_SEPARATOR == ","
KEY_SEPARATOR == ": "

\* the concatenation of a sequence of strings (by halves, to keep the
\* evaluation shallow)
RECURSIVE Concat(_)
Concat(ss) ==
    IF Len(ss) = 0 THEN ""
    ELSE IF Len(ss) = 1 THEN ss[1]
    ELSE LET h == Len(ss) \div 2
         IN  Concat(SubSeq(ss, 1, h)) \o Concat(SubSeq(ss, h + 1, Len(ss)))

\* the concatenation of a sequence of sequences
RECURSIVE Flatten(_)
Flatten(sss) ==
    IF Len(sss) = 0 THEN << >>
    ELSE IF Len(sss) = 1 THEN sss[1]
    ELSE LET h == Len(sss) \div 2
         IN  Flatten(SubSeq(sss, 1, h)) \o Flatten(SubSeq(sss, h + 1, Len(sss)))

NewlineIndent(level) == "\n" \o Concat([ i \in 1..level |-> INDENT ])

\* the escapes of a string literal (ensure_ascii=False: only the quote, the
\* backslash and control characters are escaped)
EscapeChar(c) ==
    CASE c = "\"" -> "\\\""
      [] c = "\\" -> "\\\\"
      [] c = "\n" -> "\\n"
      [] c = "\t" -> "\\t"
      [] OTHER    -> c

RECURSIVE Escape(_)
Escape(s) == IF s = "" THEN "" ELSE EscapeChar(Head(s)) \o Escape(Tail(s))

EncodeString(s) == "\"" \o Escape(s) \o "\""

\* a profile's values: age is an int, the other three are strings
EncodeValue(key, v) == IF key = "age" THEN IntStr(v) ELSE EncodeString(v)

\* the chunks of one object, nested one level inside the array
DictChunks(p, level) ==
    LET member(i) ==
            (IF i = 1 THEN << >>
                      ELSE << ITEM_SEPARATOR \o NewlineIndent(level + 1) >>)
            \o << EncodeString(PROFILE_KEYS[i]), KEY_SEPARATOR,
                  EncodeValue(PROFILE_KEYS[i], p[PROFILE_KEYS[i]]) >>
    IN  << "{", NewlineIndent(level + 1) >>
        \o Flatten([ i \in 1..Len(PROFILE_KEYS) |-> member(i) ])
        \o << NewlineIndent(level), "}" >>

\* the chunks of the whole array
Chunks(ps) ==
    IF ps = << >> THEN << "[]" >>
    ELSE LET element(i) ==
                 << (IF i = 1 THEN "[" \o NewlineIndent(1)
                              ELSE ITEM_SEPARATOR \o NewlineIndent(1)) >>
                 \o DictChunks(ps[i], 1)
         IN  Flatten([ i \in 1..Len(ps) |-> element(i) ])
             \o << NewlineIndent(0), "]" >>

\* the text of the whole array
Serialize(ps) == Concat(Chunks(ps))

IsPrefix(a, b) == Len(a) <= Len(b) /\ SubSeq(b, 1, Len(a)) = a

(***************************************************************************)
(* Reading the file back: a JSON parser for arrays of objects whose values *)
(* are strings or integers.  Every parse returns [ok, val, pos]: whether   *)
(* it succeeded, the value, and the position after the text consumed.      *)
(***************************************************************************)
WHITESPACE == { " ", "\n", "\t" }

Fail == [ ok |-> FALSE, pos |-> 0 ]

RECURSIVE SkipWS(_, _)
SkipWS(s, i) ==
    IF i <= Len(s) /\ CharAt(s, i) \in WHITESPACE THEN SkipWS(s, i + 1) ELSE i

UnescapeChar(c) ==
    CASE c = "n" -> "\n"
      [] c = "t" -> "\t"
      [] OTHER   -> c

\* the characters of a string literal from position i, up to the closing quote
RECURSIVE ParseChars(_, _, _)
ParseChars(s, i, acc) ==
    IF i > Len(s) THEN Fail
    ELSE IF CharAt(s, i) = "\"" THEN [ ok |-> TRUE, val |-> acc, pos |-> i + 1 ]
    ELSE IF CharAt(s, i) = "\\"
         THEN IF i + 1 > Len(s) THEN Fail
              ELSE ParseChars(s, i + 2, acc \o UnescapeChar(CharAt(s, i + 1)))
    ELSE ParseChars(s, i + 1, acc \o CharAt(s, i))

ParseString(s, i) ==
    IF i <= Len(s) /\ CharAt(s, i) = "\"" THEN ParseChars(s, i + 1, "") ELSE Fail

RECURSIVE ParseDigits(_, _, _)
ParseDigits(s, i, acc) ==
    IF i <= Len(s) /\ IndexIn(CharAt(s, i), DIGITS) > 0
    THEN ParseDigits(s, i + 1, 10 * acc + (IndexIn(CharAt(s, i), DIGITS) - 1))
    ELSE [ ok |-> TRUE, val |-> acc, pos |-> i ]

ParseInt(s, i) ==
    IF i <= Len(s) /\ IndexIn(CharAt(s, i), DIGITS) > 0
    THEN ParseDigits(s, i, 0)
    ELSE IF i < Len(s) /\ CharAt(s, i) = "-"
              /\ IndexIn(CharAt(s, i + 1), DIGITS) > 0
         THEN LET r == ParseDigits(s, i + 1, 0)
              IN  [ ok |-> TRUE, val |-> 0 - r.val, pos |-> r.pos ]
    ELSE Fail

\* a value: a string or an integer, tagged with its kind
ParseValue(s, i) ==
    IF i <= Len(s) /\ CharAt(s, i) = "\""
    THEN LET r == ParseString(s, i)
         IN  IF r.ok THEN [ ok |-> TRUE, pos |-> r.pos,
                            val |-> [ kind |-> "str", str |-> r.val, int |-> 0 ] ]
                     ELSE Fail
    ELSE LET r == ParseInt(s, i)
         IN  IF r.ok THEN [ ok |-> TRUE, pos |-> r.pos,
                            val |-> [ kind |-> "int", str |-> "", int |-> r.val ] ]
                     ELSE Fail

\* the members of an object after its opening brace: a sequence of
\* << key, value >> pairs in the order of the text
RECURSIVE ParseMembers(_, _, _)
ParseMembers(s, i, acc) ==
    LET k == ParseString(s, SkipWS(s, i))
    IN  IF ~k.ok THEN Fail
        ELSE LET c == SkipWS(s, k.pos)
             IN  IF c > Len(s) \/ CharAt(s, c) # ":" THEN Fail
                 ELSE LET v == ParseValue(s, SkipWS(s, c + 1))
                      IN  IF ~v.ok THEN Fail
                          ELSE LET e    == SkipWS(s, v.pos)
                                   acc2 == Append(acc, << k.val, v.val >>)
                               IN  IF e > Len(s) THEN Fail
                                   ELSE IF CharAt(s, e) = ","
                                        THEN ParseMembers(s, e + 1, acc2)
                                   ELSE IF CharAt(s, e) = "}"
                                        THEN [ ok |-> TRUE, val |-> acc2,
                                               pos |-> e + 1 ]
                                   ELSE Fail

ParseObject(s, i) ==
    IF i > Len(s) \/ CharAt(s, i) # "{" THEN Fail
    ELSE LET j == SkipWS(s, i + 1)
         IN  IF j <= Len(s) /\ CharAt(s, j) = "}"
             THEN [ ok |-> TRUE, val |-> << >>, pos |-> j + 1 ]
             ELSE ParseMembers(s, i + 1, << >>)

\* the elements of an array after its opening bracket
RECURSIVE ParseElements(_, _, _)
ParseElements(s, i, acc) ==
    LET o == ParseObject(s, SkipWS(s, i))
    IN  IF ~o.ok THEN Fail
        ELSE LET e    == SkipWS(s, o.pos)
                 acc2 == Append(acc, o.val)
             IN  IF e > Len(s) THEN Fail
                 ELSE IF CharAt(s, e) = "," THEN ParseElements(s, e + 1, acc2)
                 ELSE IF CharAt(s, e) = "]"
                      THEN [ ok |-> TRUE, val |-> acc2, pos |-> e + 1 ]
                 ELSE Fail

ParseArray(s, i) ==
    IF i > Len(s) \/ CharAt(s, i) # "[" THEN Fail
    ELSE LET j == SkipWS(s, i + 1)
         IN  IF j <= Len(s) /\ CharAt(s, j) = "]"
             THEN [ ok |-> TRUE, val |-> << >>, pos |-> j + 1 ]
             ELSE ParseElements(s, i + 1, << >>)

\* json.loads of a whole text: one array and nothing but whitespace after it
ParseJSON(s) ==
    LET r == ParseArray(s, SkipWS(s, 1))
    IN  IF r.ok /\ SkipWS(s, r.pos) = Len(s) + 1
        THEN [ ok |-> TRUE, val |-> r.val ]
        ELSE [ ok |-> FALSE, val |-> << >> ]

\* the keys of a parsed object, in the order of the text
ObjectKeys(o) == [ i \in 1..Len(o) |-> o[i][1] ]

\* a parsed object has the shape of a profile: the four keys, in order, with
\* string values but for the integer age
IsProfileObject(o) ==
    /\ ObjectKeys(o) = PROFILE_KEYS
    /\ \A i \in 1..Len(o) :
          o[i][2].kind = (IF o[i][1] = "age" THEN "int" ELSE "str")

\* the profile a parsed object stands for
ObjectProfile(o) ==
    [ name |-> o[1][2].str, email |-> o[2][2].str,
      age  |-> o[3][2].int, city  |-> o[4][2].str ]

(***************************************************************************)
(* The program state.                                                      *)
(***************************************************************************)
VARIABLES
    entry,      \* "call": save_profiles called by some caller; "main": the program run
    n,          \* save_profiles' argument n
    filename,   \* save_profiles' argument filename
    pc,         \* position in the program
    rng,        \* state of the process-wide random source
    seed,       \* the state of the random source when save_profiles was called
    yielded,    \* the values the random source has yielded since, in order
    profiles,   \* the local list profiles of save_profiles
    exists,     \* the destination file exists
    writable,   \* the destination path can be opened for writing
    file,       \* the contents of the destination file
    prior,      \* the contents of the destination file before the call
    isopen,     \* the file object f is open
    opens,      \* number of calls of open
    pending,    \* the chunks json.dump has still to pass to f.write
    written,    \* number of chunks json.dump has passed to f.write
    err,        \* the error raised and not handled, "none" when there is none
    result,     \* the value save_profiles returned
    stdout      \* the lines printed

vars == << entry, n, filename, pc, rng, seed, yielded, profiles, exists,
           writable, file, prior, isopen, opens, pending, written, err,
           result, stdout >>

\* what the destination file may hold before the call: text that is not
\* JSON, and an array left by an earlier run
PRIOR_CONTENTS ==
    { "not json", Serialize(<< generate_profile(0).profile >>) \o "\n" }

CALL_FILENAME == "out.json"

Init ==
    /\ entry \in { "call", "main" }
    /\ n \in (IF entry = "main" THEN { MAIN_N } ELSE (0 - MaxN) .. MaxN)
    /\ filename = (IF entry = "main" THEN MAIN_FILENAME ELSE CALL_FILENAME)
    /\ pc = "start"
    /\ rng \in RngStates
    /\ seed = rng
    /\ yielded = << >>
    /\ profiles = << >>
    /\ exists \in BOOLEAN
    /\ writable \in BOOLEAN
    /\ file \in (IF exists THEN PRIOR_CONTENTS ELSE { "" })
    /\ prior = file
    /\ isopen = FALSE
    /\ opens = 0
    /\ pending = << >>
    /\ written = 0
    /\ err = "none"
    /\ result = << >>
    /\ stdout = << >>

(***************************************************************************)
(* save_profiles (lines 44-49).                                            *)
(***************************************************************************)
\* range(1, n) in place of range(n): one iteration short
RangeLenShort(k) == IF k > 1 THEN k - 1 ELSE 0

\* range(abs(n)) in place of range(n)
RangeLenAbs(k) == IF k > 0 THEN k ELSE 0 - k

\* len(range(n)): the number of iterations of the comprehension of line 46
RangeLen(k) == IF k > 0 THEN k ELSE 0

\* the call itself: line 53 in the program run
call_save_profiles ==
    /\ pc = "start"
    /\ pc' = "generate"
    /\ UNCHANGED << entry, n, filename, rng, seed, yielded, profiles, exists,
                    writable, file, prior, isopen, opens, pending, written,
                    err, result, stdout >>

\* line 46: one iteration of [generate_profile() for _ in range(n)]
save_profiles_generate ==
    /\ pc = "generate"
    /\ Len(profiles) < RangeLen(n)
    /\ LET g == generate_profile(rng)
       IN  /\ profiles' = Append(profiles, g.profile)
           /\ rng' = g.rng
           /\ yielded' = yielded \o g.yielded
    /\ UNCHANGED << entry, n, filename, pc, seed, exists, writable, file,
                    prior, isopen, opens, pending, written, err, result,
                    stdout >>

\* open(filename, "a"): the prior contents are kept and written after
open_ok_append ==
    /\ pc = "generate"
    /\ Len(profiles) >= RangeLen(n)
    /\ writable
    /\ exists' = TRUE
    /\ file' = file
    /\ isopen' = TRUE
    /\ opens' = opens + 1
    /\ pending' = Chunks(profiles)
    /\ written' = 0
    /\ pc' = "dump"
    /\ UNCHANGED << entry, n, filename, rng, seed, yielded, profiles,
                    writable, prior, err, result, stdout >>

\* line 47: open(filename, "w") succeeds; the file is created or truncated.
\* json.dump (line 48) is entered: the encoder has all its chunks to yield
open_ok ==
    /\ pc = "generate"
    /\ Len(profiles) >= RangeLen(n)
    /\ writable
    /\ exists' = TRUE
    /\ file' = ""
    /\ isopen' = TRUE
    /\ opens' = opens + 1
    /\ pending' = Chunks(profiles)
    /\ written' = 0
    /\ pc' = "dump"
    /\ UNCHANGED << entry, n, filename, rng, seed, yielded, profiles,
                    writable, prior, err, result, stdout >>

\* the error of open caught inside save_profiles, which goes on to return
open_fail_swallow ==
    /\ pc = "generate"
    /\ Len(profiles) >= RangeLen(n)
    /\ ~writable
    /\ opens' = opens + 1
    /\ pc' = "return"
    /\ UNCHANGED << entry, n, filename, rng, seed, yielded, profiles, exists,
                    writable, file, prior, isopen, pending, written, err,
                    result, stdout >>

\* line 47: open(filename, "w") raises; nothing in save_profiles handles it
open_fail ==
    /\ pc = "generate"
    /\ Len(profiles) >= RangeLen(n)
    /\ ~writable
    /\ opens' = opens + 1
    /\ err' = "OSError"
    /\ pc' = "raised"
    /\ UNCHANGED << entry, n, filename, rng, seed, yielded, profiles, exists,
                    writable, file, prior, isopen, pending, written, result,
                    stdout >>

\* the closing chunk of the text never reaches the file
dump_write_unflushed ==
    /\ pc = "dump"
    /\ pending # << >>
    /\ file' = (IF Len(pending) = 1 THEN file ELSE file \o Head(pending))
    /\ pending' = Tail(pending)
    /\ written' = written + 1
    /\ UNCHANGED << entry, n, filename, pc, rng, seed, yielded, profiles,
                    exists, writable, prior, isopen, opens, err, result,
                    stdout >>

\* line 48: json.dump passes the next chunk to f.write
dump_write ==
    /\ pc = "dump"
    /\ pending # << >>
    /\ file' = file \o Head(pending)
    /\ pending' = Tail(pending)
    /\ written' = written + 1
    /\ UNCHANGED << entry, n, filename, pc, rng, seed, yielded, profiles,
                    exists, writable, prior, isopen, opens, err, result,
                    stdout >>

\* line 48: a write raises (the device is full, say); json.dump stops
dump_write_fail ==
    /\ pc = "dump"
    /\ pending # << >>
    /\ err' = "OSError"
    /\ pc' = "failed"
    /\ UNCHANGED << entry, n, filename, rng, seed, yielded, profiles, exists,
                    writable, file, prior, isopen, opens, pending, written,
                    result, stdout >>

\* f = open(...) without with: f is closed only after json.dump returned
with_exit_leak ==
    /\ \/ pc = "dump" /\ pending = << >>
       \/ pc = "failed"
    /\ isopen' = (err # "none")
    /\ pc' = (IF err = "none" THEN "return" ELSE "raised")
    /\ UNCHANGED << entry, n, filename, rng, seed, yielded, profiles, exists,
                    writable, file, prior, opens, pending, written, err,
                    result, stdout >>

\* lines 47-48: the with statement is left, after json.dump returned or with
\* the error it raised; f is closed either way, and the error is raised again
with_exit ==
    /\ \/ pc = "dump" /\ pending = << >>
       \/ pc = "failed"
    /\ isopen' = FALSE
    /\ pc' = (IF err = "none" THEN "return" ELSE "raised")
    /\ UNCHANGED << entry, n, filename, rng, seed, yielded, profiles, exists,
                    writable, file, prior, opens, pending, written, err,
                    result, stdout >>

\* line 49: return profiles
save_profiles_return ==
    /\ pc = "return"
    /\ result' = profiles
    /\ pc' = "returned"
    /\ UNCHANGED << entry, n, filename, rng, seed, yielded, profiles, exists,
                    writable, file, prior, isopen, opens, pending, written,
                    err, stdout >>

(***************************************************************************)
(* The __main__ block (lines 52-54).                                       *)
(***************************************************************************)
\* the line printed in a finally clause, whether save_profiles returned or raised
main_print_regardless ==
    /\ entry = "main"
    /\ pc \in { "returned", "raised" }
    /\ stdout' = Append(stdout, MAIN_MESSAGE)
    /\ pc' = "exited"
    /\ UNCHANGED << entry, n, filename, rng, seed, yielded, profiles, exists,
                    writable, file, prior, isopen, opens, pending, written,
                    err, result >>

\* line 54: print(...), reached only when save_profiles returned
main_print ==
    /\ entry = "main"
    /\ pc = "returned"
    /\ stdout' = Append(stdout, MAIN_MESSAGE)
    /\ pc' = "exited"
    /\ UNCHANGED << entry, n, filename, rng, seed, yielded, profiles, exists,
                    writable, file, prior, isopen, opens, pending, written,
                    err, result >>

Next ==
    \/ call_save_profiles
    \/ save_profiles_generate
    \/ open_ok
    \/ open_fail
    \/ dump_write
    \/ dump_write_fail
    \/ with_exit
    \/ save_profiles_return
    \/ main_print

Spec == Init /\ [][Next]_vars

(***************************************************************************)
(* Properties.                                                             *)
(***************************************************************************)
Returned == pc \in { "returned", "exited" }

\* the profiles the text of the file stands for
FileProfiles == [ i \in 1..Len(ParseJSON(file).val) |->
                    ObjectProfile(ParseJSON(file).val[i]) ]

\* C1: for n >= 0, when save_profiles has returned, the value returned is a
\* sequence of exactly n profiles and the file holds a JSON array of exactly
\* n objects; for n = 0 the value is the empty sequence and the file holds [].
C1_CountReturnedAndWritten ==
    (Returned /\ n >= 0) =>
        /\ Len(result) = n
        /\ ParseJSON(file).ok
        /\ Len(ParseJSON(file).val) = n
        /\ n = 0 => (result = << >> /\ file = "[]")

C1_Witness ==
    /\ pc = "returned" /\ n = 2
    /\ Len(result) = 2 /\ Len(ParseJSON(file).val) = 2

\* C2: when save_profiles has returned, whatever the file held before,
\* parsing the file yields the sequence returned: same length, same order,
\* and in each profile the keys name, email, age, city with the same values.
C2_RoundTrip ==
    Returned =>
        /\ ParseJSON(file).ok
        /\ Len(ParseJSON(file).val) = Len(result)
        /\ \A i \in 1..Len(result) : IsProfileObject(ParseJSON(file).val[i])
        /\ FileProfiles = result

C2_Witness ==
    /\ pc = "returned"
    /\ prior = "not json"
    /\ Len(result) = 2 /\ result[1] # result[2]
    /\ FileProfiles = result

\* C3: every profile generated has its age in 18..75, its city among the 20
\* entries of CITIES and its name of the form "F L", F one of the 20 first
\* names and L one of the 20 last names.
C3_FieldRanges ==
    /\ Cardinality(Range(FIRST_NAMES)) = 20
    /\ Cardinality(Range(LAST_NAMES)) = 20
    /\ Cardinality(Range(CITIES)) = 20
    /\ \A i \in 1..Len(profiles) :
          /\ profiles[i].age \in 18..75
          /\ profiles[i].city \in Range(CITIES)
          /\ \E F \in Range(FIRST_NAMES) : \E L \in Range(LAST_NAMES) :
                profiles[i].name = F \o " " \o L

C3_Witness ==
    /\ pc = "generate"
    /\ \E i \in 1..Len(profiles) : profiles[i].age = 75
    /\ \E i \in 1..Len(profiles) : profiles[i].name = "Tina Smith"

\* the decimal forms, without leading zeros, of the integers 1..999
IsNumber1To999(m) ==
    /\ Len(m) \in 1..3
    /\ \A j \in 1..Len(m) : IndexIn(CharAt(m, j), DIGITS) > 0
    /\ CharAt(m, 1) # "0"

\* C4: in every profile generated, the e-mail is lower(F).lower(L)k@d for
\* the very F and L that make up the name of the same profile, k the decimal
\* form of an integer in 1..999 and d one of the 5 entries of DOMAINS.
C4_EmailMatchesName ==
    /\ Cardinality(Range(DOMAINS)) = 5
    /\ \A i \in 1..Len(profiles) :
          \E F \in Range(FIRST_NAMES) : \E L \in Range(LAST_NAMES) :
             /\ profiles[i].name = F \o " " \o L
             /\ \E d \in Range(DOMAINS) :
                   LET e    == profiles[i].email
                       pre  == Lower(F) \o "." \o Lower(L)
                       post == "@" \o d
                   IN  /\ Len(e) > Len(pre) + Len(post)
                       /\ SubSeq(e, 1, Len(pre)) = pre
                       /\ SubSeq(e, Len(e) - Len(post) + 1, Len(e)) = post
                       /\ IsNumber1To999(
                             SubSeq(e, Len(pre) + 1, Len(e) - Len(post)))

C4_Witness ==
    /\ pc = "generate"
    /\ \E i \in 1..Len(profiles) :
          /\ SubSeq(profiles[i].name, 1, 6) = "Alice "
          /\ SubSeq(profiles[i].email, 1, 6) = "alice."

\* the file object has been opened by this call
Opened == opens > 0 /\ (writable \/ isopen)

\* C5 as stated: between opening the file and closing it there is exactly
\* one write step, so that the file never holds a proper, non-empty prefix
\* of the serialized array.
C5_SingleWriteStep ==
    /\ (Opened /\ pc \in { "return", "returned", "exited" }) => written = 1
    /\ Opened => ~ ( /\ file # ""
                     /\ file # Serialize(profiles)
                     /\ IsPrefix(file, Serialize(profiles)) )

\* C5 as amended: save_profiles opens the file once, which replaces the
\* prior contents by the empty file; json.dump then passes the array to the
\* file chunk by chunk, so that from the opening on the file holds a prefix
\* of the serialized array (the chunks written so far, possibly a proper and
\* non-empty prefix), and it holds the whole array whenever save_profiles
\* returns.
C5_PrefixUntilComplete ==
    Opened =>
        /\ opens = 1
        /\ file = Concat(SubSeq(Chunks(profiles), 1, written))
        /\ pending = SubSeq(Chunks(profiles), written + 1, Len(Chunks(profiles)))
        /\ IsPrefix(file, Serialize(profiles))
        /\ pc \in { "return", "returned", "exited" } => file = Serialize(profiles)

C5_Witness ==
    /\ isopen
    /\ prior # ""
    /\ written > 1 /\ written < Len(Chunks(profiles))
    /\ file # "" /\ file # Serialize(profiles)

\* C6: once save_profiles has opened the file, the file is closed on every
\* exit path: no state after save_profiles has exited, by return or by a
\* raised error, has the file still open.
C6_ClosedOnEveryExit ==
    pc \in { "return", "returned", "raised", "exited" } => ~isopen

C6_Witness ==
    /\ pc = "raised"
    /\ opens = 1 /\ writable
    /\ written > 0
    /\ err = "OSError"
    /\ ~isopen

\* C7: when the destination is not writable, the error of open propagates
\* to the caller: save_profiles does not catch it, does not retry and never
\* returns a sequence of profiles.
C7_OpenErrorPropagates ==
    ~writable =>
        /\ opens <= 1
        /\ pc \in { "start", "generate", "raised" }
        /\ opens = 1 => (pc = "raised" /\ err = "OSError")
        /\ pc = "raised" => (err = "OSError" /\ file = prior /\ ~isopen)
        /\ result = << >>
        /\ stdout = << >>

C7_Witness ==
    /\ ~writable
    /\ pc = "raised"
    /\ Len(profiles) = 2
    /\ opens = 1

\* C8: the program run generates exactly 10 profiles, writes them to
\* profiles.json and only then prints the one line: whenever the line has
\* been printed the file is fully written and closed, and it is never
\* printed in a run where the write failed.
C8_PrintAfterWrite ==
    entry = "main" =>
        /\ stdout \in { << >>, << "10 profiles saved to profiles.json" >> }
        /\ stdout # << >> =>
              /\ filename = "profiles.json"
              /\ Len(result) = 10
              /\ exists /\ ~isopen
              /\ file = Serialize(result)
              /\ Len(ParseJSON(file).val) = 10
              /\ err = "none"
        /\ err # "none" => stdout = << >>
        /\ pc = "returned" => Len(profiles) = 10

C8_Witness ==
    /\ entry = "main"
    /\ pc = "exited"
    /\ stdout = << "10 profiles saved to profiles.json" >>
    /\ file = Serialize(result)

\* the profiles that the values ds yielded by the random source stand for,
\* six values per profile: first name, last name, e-mail number, e-mail
\* domain, age, city
ProfileOfDraws(ds, i) ==
    LET b == 6 * (i - 1)
        F == choice(FIRST_NAMES, ds[b + 1])
        L == choice(LAST_NAMES, ds[b + 2])
    IN  [ name  |-> F \o " " \o L,
          email |-> Lower(F) \o "." \o Lower(L)
                      \o IntStr(randint(1, 999, ds[b + 3]))
                      \o "@" \o choice(DOMAINS, ds[b + 4]),
          age   |-> randint(18, 75, ds[b + 5]),
          city  |-> choice(CITIES, ds[b + 6]) ]

\* C9: the value returned and the text written are determined by n and by
\* the state of the random source at the call: the source yields six values
\* per profile, and the profiles are those values read in the order first
\* name, last name, e-mail number, e-mail domain, age, city.
C9_DeterminedBySeed ==
    (Returned /\ n >= 0) =>
        /\ yielded = Stream(seed, 6 * n)
        /\ result = [ i \in 1..n |-> ProfileOfDraws(Stream(seed, 6 * n), i) ]
        /\ file = Serialize([ i \in 1..n |->
                                ProfileOfDraws(Stream(seed, 6 * n), i) ])

C9_Witness ==
    /\ pc = "returned"
    /\ n = 2
    /\ Len(yielded) = 12
    /\ result[1].age # 18 /\ result[1].city # "New York"

\* C10: for negative n, save_profiles makes no random draw and raises no
\* range error; it returns the empty sequence and writes [] as for n = 0.
C10_NegativeIsEmpty ==
    n < 0 =>
        /\ profiles = << >>
        /\ yielded = << >> /\ rng = seed
        /\ err # "none" => (err = "OSError" /\ opens = 1)
        /\ Returned => (result = << >> /\ file = "[]")

C10_Witness ==
    /\ n < 0
    /\ pc = "returned"
    /\ prior # ""
    /\ result = << >> /\ file = "[]"

=============================================================================
